---- MODULE Spec2Model ----
(***************************************************************************)
(* A model of motorcalc's src/calc/number.rs: the tagged number Num        *)
(* (In / Out / None), its predicates and accessors, its arithmetic         *)
(* operators, and the text routines display, display_ratio, parse and      *)
(* parse_ratio.                                                            *)
(*                                                                         *)
(* f64 payloads are modelled in exact arithmetic.  A finite payload is the *)
(* rational (n / d) * 10^e kept in a normal form (d coprime to 10 and to   *)
(* n, n not a multiple of 10), which covers the whole range the metric     *)
(* prefix table spans without leaving TLC's integers.  NaN and the two     *)
(* infinities are separate values and follow IEEE 754.  The sign of zero   *)
(* and binary rounding error are not modelled.                             *)
(*                                                                         *)
(* Strings are sequences of one-character strings.                         *)
(***************************************************************************)
EXTENDS Integers, Sequences, FiniteSets, TLC

VARIABLES pc, op, self, arg, out, a, temp

vars == <<pc, op, self, arg, out, a, temp>>

-----------------------------------------------------------------------------
(* Integer helpers.                                                        *)

Abs(i) == IF i < 0 THEN -i ELSE i

Sgn(i) == IF i < 0 THEN -1 ELSE IF i = 0 THEN 0 ELSE 1

Min(i, j) == IF i < j THEN i ELSE j

Max(i, j) == IF i < j THEN j ELSE i

RECURSIVE GCD(_, _)
GCD(i, j) == IF j = 0 THEN i ELSE GCD(j, i % j)

RECURSIVE Pow10(_)
Pow10(k) == IF k <= 0 THEN 1 ELSE 10 * Pow10(k - 1)

\* The number of decimal digits of a natural number (1 for 0).
RECURSIVE NumDigits(_)
NumDigits(i) == IF i < 10 THEN 1 ELSE 1 + NumDigits(i \div 10)

-----------------------------------------------------------------------------
(* f64 payloads.                                                           *)

NaN == [cls |-> "nan"]

PosInf == [cls |-> "inf"]

NegInf == [cls |-> "ninf"]

Zero == [cls |-> "fin", n |-> 0, d |-> 1, e |-> 0]

IsFin(x) == x.cls = "fin"

\* The normal form of (n / d) * 10^e, d > 0.
RECURSIVE Norm(_, _, _)
Norm(n, d, e) ==
    IF n = 0 THEN Zero
    ELSE LET g == GCD(Abs(n), d) IN
         IF g > 1 THEN Norm(n \div g, d \div g, e)
         ELSE IF d % 2 = 0 THEN Norm(n * 5, d \div 2, e - 1)
         ELSE IF d % 5 = 0 THEN Norm(n * 2, d \div 5, e - 1)
         ELSE IF n % 10 = 0 THEN Norm(Sgn(n) * (Abs(n) \div 10), d, e + 1)
         ELSE [cls |-> "fin", n |-> n, d |-> d, e |-> e]

\* The least j with n * 10^j >= d.
RECURSIVE ShiftUp(_, _)
ShiftUp(n, d) == IF n >= d THEN 0 ELSE 1 + ShiftUp(n * 10, d)

\* floor(log10(|x|)) of a finite non-zero payload.
Order(x) ==
    IF Abs(x.n) >= x.d THEN x.e + NumDigits(Abs(x.n) \div x.d) - 1
    ELSE x.e - ShiftUp(Abs(x.n), x.d)

\* The decimal orders of magnitude an f64 holds: a larger result overflows
\* to an infinity, a smaller one underflows to zero.  (The part of order
\* 308 above f64::MAX is not cut off.)
InRange(x) ==
    IF x.n = 0 THEN x
    ELSE IF Order(x) > 308 THEN (IF x.n > 0 THEN PosInf ELSE NegInf)
    ELSE IF Order(x) < -324 THEN Zero
    ELSE x

\* An integer, and a decimal m * 10^e, as payloads.
I(i) == Norm(i, 1, 0)

Dec(m, e) == Norm(m, 1, e)

Q(n, d) == Norm(n, d, 0)

FSign(x) == IF IsFin(x) THEN Sgn(x.n) ELSE IF x = PosInf THEN 1 ELSE IF x = NegInf THEN -1 ELSE 0

FNeg(x) ==
    IF IsFin(x) THEN [x EXCEPT !.n = -x.n]
    ELSE IF x = PosInf THEN NegInf
    ELSE IF x = NegInf THEN PosInf
    ELSE NaN

FAbs(x) == IF FSign(x) < 0 THEN FNeg(x) ELSE x

\* f64 addition (v + rhs).
FAdd(x, y) ==
    IF x = NaN \/ y = NaN THEN NaN
    ELSE IF ~IsFin(x) /\ ~IsFin(y) THEN (IF x = y THEN x ELSE NaN)
    ELSE IF ~IsFin(x) THEN x
    ELSE IF ~IsFin(y) THEN y
    ELSE LET e == Min(x.e, y.e)
             l == (x.d * y.d) \div GCD(x.d, y.d)
         IN  InRange(Norm(x.n * (l \div x.d) * Pow10(x.e - e)
                              + y.n * (l \div y.d) * Pow10(y.e - e), l, e))

\* f64 subtraction (v - rhs).
FSub(x, y) == FAdd(x, FNeg(y))

\* f64 multiplication (v * rhs).
FMul(x, y) ==
    IF x = NaN \/ y = NaN THEN NaN
    ELSE IF ~IsFin(x) \/ ~IsFin(y)
         THEN (IF FSign(x) * FSign(y) = 0 THEN NaN
               ELSE IF FSign(x) * FSign(y) > 0 THEN PosInf ELSE NegInf)
    ELSE InRange(Norm(x.n * y.n, x.d * y.d, x.e + y.e))

\* f64 division (v / rhs): a zero divisor gives an infinity or NaN.
FDiv(x, y) ==
    IF x = NaN \/ y = NaN THEN NaN
    ELSE IF ~IsFin(x) /\ ~IsFin(y) THEN NaN
    ELSE IF ~IsFin(x) THEN (IF FSign(y) < 0 THEN FNeg(x) ELSE x)
    ELSE IF ~IsFin(y) THEN Zero
    ELSE IF y.n = 0 THEN (IF x.n = 0 THEN NaN ELSE IF x.n > 0 THEN PosInf ELSE NegInf)
    ELSE InRange(Norm(x.n * y.d * Sgn(y.n), x.d * Abs(y.n), x.e - y.e))

\* The exact integer square root of a perfect square.
ISqrt(i) == CHOOSE r \in 0..i : r * r = i

\* f64::sqrt, on the payloads whose root is a payload of the model.
FSqrt(x) ==
    IF x = NaN \/ x = NegInf THEN NaN
    ELSE IF x = PosInf THEN PosInf
    ELSE IF x.n < 0 THEN NaN
    ELSE Norm(ISqrt(x.n * Pow10(x.e % 2)), ISqrt(x.d), (x.e - (x.e % 2)) \div 2)

\* |x| < |y| on finite non-zero payloads.
MagLt(x, y) ==
    IF Order(x) # Order(y) THEN Order(x) < Order(y)
    ELSE LET e == Min(x.e, y.e) IN
         Abs(x.n) * y.d * Pow10(x.e - e) < Abs(y.n) * x.d * Pow10(y.e - e)

\* f64's < : false whenever an operand is NaN.
FLt(x, y) ==
    IF x = NaN \/ y = NaN \/ x = y THEN FALSE
    ELSE IF x = NegInf \/ y = PosInf THEN TRUE
    ELSE IF x = PosInf \/ y = NegInf THEN FALSE
    ELSE IF FSign(x) # FSign(y) THEN FSign(x) < FSign(y)
    ELSE IF FSign(x) > 0 THEN MagLt(x, y)
    ELSE MagLt(y, x)

\* f64's > and >= .
FGt(x, y) == FLt(y, x)

FGe(x, y) == x # NaN /\ y # NaN /\ ~FLt(x, y)

-----------------------------------------------------------------------------
(* The enum Num and its accessors.                                         *)

In(v) == [tag |-> "In", v |-> v]

Out(v) == [tag |-> "Out", v |-> v]

None == [tag |-> "None"]

\* The outcome of a panic!.
Panic == [tag |-> "panic"]

\* Option<f64>.
Some(v) == [some |-> TRUE, v |-> v]

NoneOpt == [some |-> FALSE]

is_input(x) == x.tag = "In"

is_output(x) == x.tag = "Out"

is_none(x) == x.tag = "None"

\* A slip in is_num: the Out arm answers false.
is_num_in_only(x) == x.tag = "In"

is_num(x) ==
    CASE x.tag = "In" -> TRUE
      [] x.tag = "Out" -> TRUE
      [] x.tag = "None" -> FALSE

as_option(x) ==
    CASE x.tag = "In" -> Some(x.v)
      [] x.tag = "Out" -> Some(x.v)
      [] x.tag = "None" -> NoneOpt

num(x) ==
    CASE x.tag = "In" -> x.v
      [] x.tag = "Out" -> x.v
      [] x.tag = "None" -> Panic

sqrt(x) ==
    CASE x.tag = "In" -> In(FSqrt(x.v))
      [] x.tag = "Out" -> Out(FSqrt(x.v))
      [] x.tag = "None" -> None

-----------------------------------------------------------------------------
(* impl Add / Sub / Mul / Div for Num.                                     *)

add_f64(x, rhs) ==
    CASE x.tag = "In" -> In(FAdd(x.v, rhs))
      [] x.tag = "Out" -> Out(FAdd(x.v, rhs))
      [] x.tag = "None" -> None

\* A slip in Add<Num>: the result takes the right operand's tag.
add_num_rhs_tag(x, rhs) ==
    IF is_none(rhs) \/ is_none(x) THEN None
    ELSE [tag |-> rhs.tag, v |-> FAdd(x.v, rhs.v)]

add_num(x, rhs) ==
    IF is_none(rhs) THEN None
    ELSE CASE x.tag = "In" -> (IF num(rhs) = Panic THEN Panic ELSE In(FAdd(x.v, num(rhs))))
           [] x.tag = "Out" -> (IF num(rhs) = Panic THEN Panic ELSE Out(FAdd(x.v, num(rhs))))
           [] x.tag = "None" -> None

sub_f64(x, rhs) ==
    CASE x.tag = "In" -> In(FSub(x.v, rhs))
      [] x.tag = "Out" -> Out(FSub(x.v, rhs))
      [] x.tag = "None" -> None

sub_num(x, rhs) ==
    IF is_none(rhs) THEN None
    ELSE CASE x.tag = "In" -> (IF num(rhs) = Panic THEN Panic ELSE In(FSub(x.v, num(rhs))))
           [] x.tag = "Out" -> (IF num(rhs) = Panic THEN Panic ELSE Out(FSub(x.v, num(rhs))))
           [] x.tag = "None" -> None

mul_f64(x, rhs) ==
    CASE x.tag = "In" -> In(FMul(x.v, rhs))
      [] x.tag = "Out" -> Out(FMul(x.v, rhs))
      [] x.tag = "None" -> None

mul_num(x, rhs) ==
    IF is_none(rhs) THEN None
    ELSE CASE x.tag = "In" -> (IF num(rhs) = Panic THEN Panic ELSE In(FMul(x.v, num(rhs))))
           [] x.tag = "Out" -> (IF num(rhs) = Panic THEN Panic ELSE Out(FMul(x.v, num(rhs))))
           [] x.tag = "None" -> None

div_f64(x, rhs) ==
    CASE x.tag = "In" -> In(FDiv(x.v, rhs))
      [] x.tag = "Out" -> Out(FDiv(x.v, rhs))
      [] x.tag = "None" -> None

div_num(x, rhs) ==
    IF is_none(rhs) THEN None
    ELSE CASE x.tag = "In" -> (IF num(rhs) = Panic THEN Panic ELSE In(FDiv(x.v, num(rhs))))
           [] x.tag = "Out" -> (IF num(rhs) = Panic THEN Panic ELSE Out(FDiv(x.v, num(rhs))))
           [] x.tag = "None" -> None

-----------------------------------------------------------------------------
(* Strings, and the formatting and parsing of the standard library.        *)

Last(s) == s[Len(s)]

Front(s) == SubSeq(s, 1, Len(s) - 1)

DigitChars == <<"0", "1", "2", "3", "4", "5", "6", "7", "8", "9">>

IsDigit(c) == \E i \in 1..10 : DigitChars[i] = c

DigitVal(c) == (CHOOSE i \in 1..10 : DigitChars[i] = c) - 1

\* The decimal digits of a natural number, most significant first.
RECURSIVE DigitsOf(_)
DigitsOf(i) == IF i < 10 THEN <<i>> ELSE Append(DigitsOf(i \div 10), i % 10)

\* The natural number a sequence of digit characters denotes.
RECURSIVE IntOf(_)
IntOf(cs) == IF cs = <<>> THEN 0 ELSE 10 * IntOf(Front(cs)) + DigitVal(Last(cs))

CharsOf(ds) == [i \in 1..Len(ds) |-> DigitChars[ds[i] + 1]]

\* An i64 rendered by {}.
IntToStr(i) == (IF i < 0 THEN <<"-">> ELSE <<>>) \o CharsOf(DigitsOf(Abs(i)))

\* s further quotient digits of r / d, and the remainder left.
RECURSIVE LongDiv(_, _, _)
LongDiv(r, d, s) ==
    IF s = 0 THEN [ds |-> <<>>, r |-> r]
    ELSE LET rest == LongDiv((r * 10) % d, d, s - 1)
         IN  [ds |-> <<(r * 10) \div d>> \o rest.ds, r |-> rest.r]

\* A digit sequence plus one.
RECURSIVE IncDigits(_)
IncDigits(ds) ==
    IF ds = <<>> THEN <<1>>
    ELSE IF Last(ds) < 9 THEN Append(Front(ds), Last(ds) + 1)
    ELSE Append(IncDigits(Front(ds)), 0)

RECURSIVE StripZeros(_)
StripZeros(ds) == IF Len(ds) > 1 /\ Head(ds) = 0 THEN StripZeros(Tail(ds)) ELSE ds

RECURSIVE PadZeros(_, _)
PadZeros(ds, k) == IF Len(ds) >= k THEN ds ELSE PadZeros(<<0>> \o ds, k)

\* The digits of |x| * 10^prec rounded to an integer, ties to even:
\* the rounding of {:.prec}.
RoundedDigits(x, prec) ==
    LET n == Abs(x.n)
        s == x.e + prec
    IN  IF s >= 0
        THEN LET ld == LongDiv(n % x.d, x.d, s)
                 raw == DigitsOf(n \div x.d) \o ld.ds
                 up == 2 * ld.r > x.d \/ (2 * ld.r = x.d /\ Last(raw) % 2 = 1)
             IN  StripZeros(IF up THEN IncDigits(raw) ELSE raw)
        ELSE IF NumDigits(n) < -s THEN <<0>>
        ELSE LET dd == x.d * Pow10(-s)
                 q == n \div dd
                 r == n % dd
                 up == 2 * r > dd \/ (2 * r = dd /\ q % 2 = 1)
             IN  DigitsOf(IF up THEN q + 1 ELSE q)

\* format!("{:.prec}", x) of an f64.
FormatFixed(x, prec) ==
    IF x = NaN THEN <<"N", "a", "N">>
    ELSE IF x = PosInf THEN <<"i", "n", "f">>
    ELSE IF x = NegInf THEN <<"-", "i", "n", "f">>
    ELSE LET ds == PadZeros(RoundedDigits(x, prec), prec + 1)
             ip == SubSeq(ds, 1, Len(ds) - prec)
             fp == SubSeq(ds, Len(ds) - prec + 1, Len(ds))
         IN  (IF x.n < 0 THEN <<"-">> ELSE <<>>)
                 \o CharsOf(ip)
                 \o (IF prec > 0 THEN <<".">> \o CharsOf(fp) ELSE <<>>)

\* f64::trunc of a finite payload.
Trunc(x) ==
    LET n == Abs(x.n)
    IN  IF x.e >= 0
        THEN (IF x.d = 1 THEN x ELSE I(Sgn(x.n) * ((n * Pow10(x.e)) \div x.d)))
        ELSE IF NumDigits(n) <= -x.e THEN Zero
        ELSE I(Sgn(x.n) * (n \div (x.d * Pow10(-x.e))))

\* A slip in fract: the sign is dropped.
FractAbs(x) == IF IsFin(x) THEN FSub(FAbs(x), Trunc(FAbs(x))) ELSE NaN

\* f64::fract: self - self.trunc(), which keeps the sign of self and is NaN
\* for an infinity.
Fract(x) == IF IsFin(x) THEN FSub(x, Trunc(x)) ELSE NaN

\* The digits of |x| rounded to an integer, ties away from zero: f64::round.
RoundAwayDigits(x) ==
    IF x.e >= 0 THEN RoundedDigits(x, 0)
    ELSE IF NumDigits(Abs(x.n)) < -x.e THEN <<0>>
    ELSE DigitsOf((2 * Abs(x.n) + x.d * Pow10(-x.e)) \div (2 * x.d * Pow10(-x.e)))

\* i64::MAX and the magnitude of i64::MIN.
I64_MAX == <<"9", "2", "2", "3", "3", "7", "2", "0", "3", "6", "8", "5", "4", "7", "7", "5", "8", "0", "7">>

I64_MIN == <<"9", "2", "2", "3", "3", "7", "2", "0", "3", "6", "8", "5", "4", "7", "7", "5", "8", "0", "8">>

\* format!("{}", x.round() as i64): the cast takes NaN to 0 and saturates.
\* (The part of order 18 beyond i64::MAX is not cut off.)
RoundI64Str(x) ==
    IF x = NaN THEN <<"0">>
    ELSE IF x = PosInf \/ (IsFin(x) /\ x.n > 0 /\ Order(x) >= 19) THEN I64_MAX
    ELSE IF x = NegInf \/ (IsFin(x) /\ x.n < 0 /\ Order(x) >= 19) THEN <<"-">> \o I64_MIN
    ELSE (IF x.n < 0 /\ RoundAwayDigits(x) # <<0>> THEN <<"-">> ELSE <<>>)
             \o CharsOf(RoundAwayDigits(x))

\* A failed str::parse::<f64>().
Err == [cls |-> "err"]

IsSign(c) == c = "+" \/ c = "-"

ToLower(c) ==
    CASE c = "I" -> "i" [] c = "N" -> "n" [] c = "F" -> "f" [] c = "A" -> "a"
      [] c = "T" -> "t" [] c = "Y" -> "y" [] c = "E" -> "e" [] OTHER -> c

AllDigits(s) == \A i \in 1..Len(s) : IsDigit(s[i])

\* The position of the first character of s that is in cs, or 0.
FirstOf(s, cs) ==
    IF \E i \in 1..Len(s) : s[i] \in cs
    THEN CHOOSE i \in 1..Len(s) : s[i] \in cs /\ \A j \in 1..(i - 1) : s[j] \notin cs
    ELSE 0

\* Number ::= ( Digit+ | Digit+ '.' Digit* | Digit* '.' Digit+ ) Exp?
\* Exp    ::= 'e' Sign? Digit+
ParseNumber(s) ==
    LET ep == FirstOf(s, {"e", "E"})
        m == IF ep = 0 THEN s ELSE SubSeq(s, 1, ep - 1)
        x == IF ep = 0 THEN <<>> ELSE SubSeq(s, ep + 1, Len(s))
        xd == IF x # <<>> /\ IsSign(Head(x)) THEN Tail(x) ELSE x
        dp == FirstOf(m, {"."})
        ip == IF dp = 0 THEN m ELSE SubSeq(m, 1, dp - 1)
        fp == IF dp = 0 THEN <<>> ELSE SubSeq(m, dp + 1, Len(m))
    IN  IF /\ AllDigits(ip) /\ AllDigits(fp) /\ Len(ip) + Len(fp) > 0
           /\ (ep # 0 => xd # <<>> /\ AllDigits(xd))
        THEN LET ex == IF x # <<>> /\ Head(x) = "-" THEN -IntOf(xd) ELSE IntOf(xd)
             IN  InRange(Norm(IntOf(ip \o fp), 1, ex - Len(fp)))
        ELSE Err

\* str::parse::<f64>():  Sign? ( 'inf' | 'infinity' | 'nan' | Number ).
ParseF64(s) ==
    LET neg == s # <<>> /\ Head(s) = "-"
        body == IF s # <<>> /\ IsSign(Head(s)) THEN Tail(s) ELSE s
        low == [i \in 1..Len(body) |-> ToLower(body[i])]
    IN  IF low \in {<<"i", "n", "f">>, <<"i", "n", "f", "i", "n", "i", "t", "y">>}
        THEN (IF neg THEN NegInf ELSE PosInf)
        ELSE IF low = <<"n", "a", "n">> THEN NaN
        ELSE IF ParseNumber(body) = Err THEN Err
        ELSE IF neg THEN FNeg(ParseNumber(body))
        ELSE ParseNumber(body)

\* str::replace(",", ".").
ReplaceComma(s) == [i \in 1..Len(s) |-> IF s[i] = "," THEN "." ELSE s[i]]

\* str::split(":").
RECURSIVE Split(_)
Split(s) ==
    LET cp == FirstOf(s, {":"})
    IN  IF cp = 0 THEN <<s>>
        ELSE <<SubSeq(s, 1, cp - 1)>> \o Split(SubSeq(s, cp + 1, Len(s)))

-----------------------------------------------------------------------------
(* display and parse.                                                      *)

\* Metric prefix and the factor.
METRIC_PREFIXES ==
    << [sym |-> <<"f">>, exp |-> -15],
       [sym |-> <<"p">>, exp |-> -12],
       [sym |-> <<"n">>, exp |-> -9],
       [sym |-> <<"µ", "u">>, exp |-> -6],
       [sym |-> <<"m">>, exp |-> -3],
       [sym |-> <<"k">>, exp |-> 3],
       [sym |-> <<"M">>, exp |-> 6],
       [sym |-> <<"G">>, exp |-> 9],
       [sym |-> <<"T">>, exp |-> 12],
       [sym |-> <<"P">>, exp |-> 15] >>

\* 10_f64.powi(k).
Powi10(k) == Dec(1, k)

\* A slip in the range test of display: 1000 itself is let in.
InPrefixRangeClosed(x, k) ==
    LET q == FDiv(FAbs(x), Powi10(k))
    IN  FGe(q, I(1)) /\ ~FGt(q, I(1000))

\* num.abs() / factor >= 1.0 && num.abs() / factor < 1000.0
InPrefixRange(x, k) ==
    LET q == FDiv(FAbs(x), Powi10(k))
    IN  FGe(q, I(1)) /\ FLt(q, I(1000))

\* The for loop of display from entry i on: the index of the entry it breaks
\* at, or 0 when it runs off the table.
RECURSIVE DisplayScan(_, _)
DisplayScan(x, i) ==
    IF i > Len(METRIC_PREFIXES) THEN 0
    ELSE IF InPrefixRange(x, METRIC_PREFIXES[i].exp) THEN i
    ELSE DisplayScan(x, i + 1)

\* The local num after the loop.
DisplayNum(x) ==
    LET i == DisplayScan(x, 1)
    IN  IF i = 0 THEN x ELSE FDiv(x, Powi10(METRIC_PREFIXES[i].exp))

\* The local metric_prefix after the loop.
DisplayPrefix(x) ==
    LET i == DisplayScan(x, 1)
    IN  IF i = 0 THEN " " ELSE Head(METRIC_PREFIXES[i].sym)

\* num.abs().log10().floor() as usize + 1, where the sum does not overflow:
\* the cast takes NaN and everything below 1 (log10 of 0 is -inf) to 0.
IntegerFigures(x) ==
    IF x = NaN \/ x = Zero THEN 1
    ELSE Max(Order(x), 0) + 1

FloatingFigures(x, significant_figures) ==
    IF IntegerFigures(x) > significant_figures THEN 0
    ELSE significant_figures - IntegerFigures(x)

\* What a panic leaves in place of the returned String.
PanicStr == <<"panic!">>

\* display.  For an infinite payload the cast saturates at usize::MAX and
\* the + 1 overflows: with overflow checks the call panics, without them
\* integer_figures wraps to 0.
display(x, significant_figures, overflow_checks) ==
    IF is_num(x)
    THEN LET v == DisplayNum(num(x))
         IN  IF v \in {PosInf, NegInf}
             THEN (IF overflow_checks THEN PanicStr
                   ELSE FormatFixed(v, significant_figures) \o <<DisplayPrefix(num(x))>>)
             ELSE FormatFixed(v, FloatingFigures(v, significant_figures))
                      \o <<DisplayPrefix(num(x))>>
    ELSE <<>>

\* A slip in the suffix test of parse: only the first character of an
\* entry's string is tried.
SuffixMatchFirst(s, i) == s # <<>> /\ Last(s) = Head(METRIC_PREFIXES[i].sym)

\* for c in m.0.chars() { if s.ends_with(c) ... }
SuffixMatch(s, i) ==
    \E j \in 1..Len(METRIC_PREFIXES[i].sym) :
        s # <<>> /\ Last(s) = METRIC_PREFIXES[i].sym[j]

\* The 'outer loop of parse from entry i on: the index of the entry it
\* breaks at, or 0.
RECURSIVE ParseScan(_, _)
ParseScan(s, i) ==
    IF i > Len(METRIC_PREFIXES) THEN 0
    ELSE IF SuffixMatch(s, i) THEN i
    ELSE ParseScan(s, i + 1)

parse(str) ==
    LET s0 == ReplaceComma(str)
        i == ParseScan(s0, 1)
        s == IF i = 0 THEN s0 ELSE Front(s0)
        factor == IF i = 0 THEN I(1) ELSE Powi10(METRIC_PREFIXES[i].exp)
    IN  IF ParseF64(s) # Err THEN In(FMul(ParseF64(s), factor)) ELSE None

\* A slip in parse_ratio: the quotient is taken the other way round.
parse_ratio_swapped(str) ==
    LET parts == Split(ReplaceComma(str))
    IN  IF Len(parts) = 2 THEN div_num(parse(parts[1]), parse(parts[2])) ELSE None

parse_ratio(str) ==
    LET parts == Split(ReplaceComma(str))
    IN  IF Len(parts) = 2 THEN div_num(parse(parts[2]), parse(parts[1])) ELSE None

-----------------------------------------------------------------------------
(* The arithmetic and accessor calls: an operation is applied once to      *)
(* operands drawn from bounded sets.                                       *)

MaxRoot == 3

\* Payloads: squares, their negatives and quarters, two non-squares, and the
\* IEEE specials.
Payloads ==
    {I(i * i) : i \in 0..MaxRoot} \cup {I(-(i * i)) : i \in 1..MaxRoot}
        \cup {Q(i * i, 4) : i \in 1..MaxRoot} \cup {I(2), I(3)}
        \cup {NaN, PosInf, NegInf}

IsSquare(i) == \E r \in 0..i : r * r = i

\* The root of the payload is a payload of the model: it is not irrational.
ExactRoot(v) ==
    IsFin(v) /\ v.n > 0 => v.e % 2 = 0 /\ IsSquare(v.n) /\ IsSquare(v.d)

Nums == {In(v) : v \in Payloads} \cup {Out(v) : v \in Payloads} \cup {None}

NumInit ==
    /\ pc = "call"
    /\ op = "none"
    /\ self \in Nums
    /\ arg \in Nums \cup Payloads
    /\ out = None
    /\ a = 0
    /\ temp = Zero

\* The call of `name` returns `r`.
Return(name, r) ==
    /\ pc = "call"
    /\ pc' = "done"
    /\ op' = name
    /\ out' = r
    /\ UNCHANGED <<self, arg, a, temp>>

AddF64 == arg \in Payloads /\ Return("add_f64", add_f64(self, arg))

AddNum == arg \in Nums /\ Return("add_num", add_num(self, arg))

SubF64 == arg \in Payloads /\ Return("sub_f64", sub_f64(self, arg))

SubNum == arg \in Nums /\ Return("sub_num", sub_num(self, arg))

MulF64 == arg \in Payloads /\ Return("mul_f64", mul_f64(self, arg))

MulNum == arg \in Nums /\ Return("mul_num", mul_num(self, arg))

DivF64 == arg \in Payloads /\ Return("div_f64", div_f64(self, arg))

DivNum == arg \in Nums /\ Return("div_num", div_num(self, arg))

\* sqrt is called on the receivers whose root the model can hold.
Sqrt == (is_num(self) => ExactRoot(num(self))) /\ Return("sqrt", sqrt(self))

IsInput == self \in Nums /\ Return("is_input", is_input(self))

IsOutput == self \in Nums /\ Return("is_output", is_output(self))

IsNone == self \in Nums /\ Return("is_none", is_none(self))

IsNum == self \in Nums /\ Return("is_num", is_num(self))

AsOption == self \in Nums /\ Return("as_option", as_option(self))

NumCall == self \in Nums /\ Return("num", num(self))

NumNext ==
    \/ AddF64 \/ AddNum \/ SubF64 \/ SubNum
    \/ MulF64 \/ MulNum \/ DivF64 \/ DivNum
    \/ Sqrt
    \/ IsInput \/ IsOutput \/ IsNone \/ IsNum \/ AsOption \/ NumCall

SpecNum == NumInit /\ [][NumNext]_vars

\* The operators by the call that applies them.
ScalarOps == {"add_f64", "sub_f64", "mul_f64", "div_f64"}

NumOps == {"add_num", "sub_num", "mul_num", "div_num"}

Applied(name, x, y) ==
    CASE name \in {"add_f64", "add_num"} -> FAdd(x, y)
      [] name \in {"sub_f64", "sub_num"} -> FSub(x, y)
      [] name \in {"mul_f64", "mul_num"} -> FMul(x, y)
      [] name \in {"div_f64", "div_num"} -> FDiv(x, y)

\* C1: every arithmetic operation (+, -, *, / with a Num or a scalar on the
\* right, and sqrt) returns None exactly when a Num operand is None, and
\* otherwise the left operand's tag with the operator applied to the
\* payloads; no operand combination panics.
C1_ArithmeticPropagates ==
    /\ pc = "done" /\ op \in ScalarOps \cup NumOps =>
          /\ out # Panic
          /\ (out = None) <=> (self = None \/ (op \in NumOps /\ arg = None))
          /\ out # None =>
                /\ out.tag = self.tag
                /\ out.v = Applied(op, self.v, IF op \in NumOps THEN arg.v ELSE arg)
    /\ pc = "done" /\ op = "sqrt" =>
          /\ out # Panic
          /\ (out = None) <=> (self = None)
          /\ out # None => out.tag = self.tag /\ out.v = FSqrt(self.v)

\* Out(3) + In(2) has returned Out(5).
C1_Witness ==
    /\ pc = "done" /\ op = "add_num"
    /\ self = Out(I(3)) /\ arg = In(I(2)) /\ out = Out(I(5))

\* C7: exactly one of is_input, is_output, is_none holds of a Num; is_num
\* holds exactly when is_none does not and exactly when as_option returns a
\* payload; num panics exactly on None, so a call guarded by is_num returns
\* the payload.
C7_AccessorsAgree ==
    /\ Cardinality({q \in {"i", "o", "n"} :
            \/ q = "i" /\ is_input(self)
            \/ q = "o" /\ is_output(self)
            \/ q = "n" /\ is_none(self)}) = 1
    /\ is_num(self) <=> ~is_none(self)
    /\ is_num(self) <=> as_option(self) # NoneOpt
    /\ is_num(self) => as_option(self) = Some(self.v)
    /\ (num(self) = Panic) <=> is_none(self)
    /\ pc = "done" /\ op = "is_input" => out = (self.tag = "In")
    /\ pc = "done" /\ op = "is_output" => out = (self.tag = "Out")
    /\ pc = "done" /\ op = "is_none" => out = (self.tag = "None")
    /\ pc = "done" /\ op = "num" => (out = Panic) <=> (self = None)
    /\ pc = "done" /\ op = "num" /\ is_num(self) => out = self.v

\* num has been called on None and has panicked.
C7_Witness == pc = "done" /\ op = "num" /\ self = None /\ out = Panic

-----------------------------------------------------------------------------
(* The display calls: display is applied once to a value and a number of   *)
(* significant figures drawn from bounded sets.                            *)

MaxExp == 18

MaxSf == 3

\* Mantissas: short ones, and ones that round up across a power of ten.
Mantissas == {1, 5, 15, 25, 999, 1234, 9996, 99996, 999999}

DisplayPayloads ==
    {Dec(m, e) : m \in Mantissas, e \in (-MaxExp)..MaxExp}
        \cup {Dec(-m, e) : m \in Mantissas, e \in (-MaxExp)..MaxExp}
        \cup {Zero, NaN, PosInf, NegInf}

DisplayInit ==
    /\ pc = "call"
    /\ op = "none"
    /\ self \in {In(v) : v \in DisplayPayloads} \cup {Out(v) : v \in DisplayPayloads} \cup {None}
    /\ arg \in 0..MaxSf
    /\ out = <<>>
    /\ a = 0
    /\ temp = Zero

\* display(self, arg), in a build with or without overflow checks; temp
\* keeps the local num as the loop left it.
Display ==
    /\ pc = "call"
    /\ \E overflow_checks \in BOOLEAN : out' = display(self, arg, overflow_checks)
    /\ temp' = IF is_num(self) THEN DisplayNum(num(self)) ELSE temp
    /\ pc' = "done"
    /\ op' = "display"
    /\ UNCHANGED <<self, arg, a>>

DisplayNext == Display

SpecDisplay == DisplayInit /\ [][DisplayNext]_vars

\* The display of a finite payload has returned.
Displayed == pc = "done" /\ op = "display" /\ is_num(self) /\ IsFin(self.v)

\* The table entries whose divisor 10^exp puts |v| / divisor in [1, 1000).
Bands(v) ==
    {i \in 1..Len(METRIC_PREFIXES) :
        /\ ~FLt(FDiv(FAbs(v), Dec(1, METRIC_PREFIXES[i].exp)), I(1))
        /\ ~FGe(FDiv(FAbs(v), Dec(1, METRIC_PREFIXES[i].exp)), I(1000))}

\* 1e-15 <= |v| < 1  or  1e3 <= |v| < 1e18.
Prefixed(v) ==
    \/ FGe(FAbs(v), Dec(1, -15)) /\ FLt(FAbs(v), I(1))
    \/ FGe(FAbs(v), Dec(1, 3)) /\ FLt(FAbs(v), Dec(1, 18))

\* 1 <= |v| < 1000.
Plain(v) == FGe(FAbs(v), I(1)) /\ FLt(FAbs(v), I(1000))

\* The fractional digits display asks for, from the scaled value.
FractionalFigures == Max(arg - IntegerFigures(temp), 0)

\* The value of the digits display rendered, with the prefix applied.
Rendered ==
    FMul(Norm(Sgn(temp.n) * IntOf(CharsOf(RoundedDigits(temp, FractionalFigures))),
              1, -FractionalFigures),
         FDiv(self.v, temp))

\* C2: parse(display(In(v), sf)) round-trips for every finite v and sf >= 1:
\* the string is accepted and yields In of v rounded to the rendered digits.
C2_RoundTrip ==
    Displayed /\ self.tag = "In" /\ arg >= 1 =>
        /\ parse(out) # None
        /\ parse(out) = In(IF self.v = Zero THEN Zero ELSE Rendered)

\* C3: display returns "" for None, and for a present value the scaled value
\* with exactly fractionalFigures decimals followed immediately by the prefix
\* symbol, or by nothing when no prefix matched ("0.00" for In(0) and sf 3).
C3_DisplayFormat ==
    /\ pc = "done" /\ op = "display" /\ self = None => out = <<>>
    /\ Displayed =>
          out = FormatFixed(temp, FractionalFigures)
                    \o (IF Bands(self.v) = {} THEN <<>>
                        ELSE <<Head(METRIC_PREFIXES[CHOOSE i \in Bands(self.v) : TRUE].sym)>>)
    /\ Displayed /\ self.v = Zero /\ arg = 3 => out = <<"0", ".", "0", "0">>

\* C8: display takes the first table entry whose divisor puts |v| in
\* [1, 1000) and divides by it: a v with 1e-15 <= |v| < 1 or 1e3 <= |v| < 1e18
\* gets exactly one prefix and a scaled magnitude in [1, 1000), any other
\* finite v (0 included) none and is left unscaled; the symbol is the first
\* character of the entry's string.
C8_PrefixSelection ==
    Displayed =>
        IF Prefixed(self.v)
        THEN /\ Cardinality(Bands(self.v)) = 1
             /\ \E i \in Bands(self.v) :
                    /\ \A j \in 1..(i - 1) : j \notin Bands(self.v)
                    /\ temp = FDiv(self.v, Dec(1, METRIC_PREFIXES[i].exp))
                    /\ Last(out) = Head(METRIC_PREFIXES[i].sym)
                    /\ (METRIC_PREFIXES[i].exp = -6 => Last(out) = "µ")
             /\ FGe(FAbs(temp), I(1)) /\ FLt(FAbs(temp), I(1000))
        ELSE /\ Bands(self.v) = {}
             /\ temp = self.v
             /\ Last(out) = " "

\* 1.5e-6 has been displayed with 3 significant figures as "1.50µ".
C8_Witness ==
    /\ Displayed /\ self = In(Dec(15, -7)) /\ arg = 3
    /\ out = <<"1", ".", "5", "0", "µ">>

\* The digit characters of a string.
DigitCount(s) == Cardinality({i \in 1..Len(s) : IsDigit(s[i])})

\* The characters of a string before its decimal point.
IntegerPart(s) == IF FirstOf(s, {"."}) = 0 THEN Front(s) ELSE SubSeq(s, 1, FirstOf(s, {"."}) - 1)

\* C10: for a present non-zero value and sf >= 1 the number rendered in front
\* of the prefix is below 1000 and shows exactly max(sf, integerFigures)
\* digits: rounding never carries it up to 1000.  (Stated for the values the
\* table or the plain range [1, 1000) covers.)
C10_NoRoundingCarry ==
    Displayed /\ arg >= 1 /\ (Prefixed(self.v) \/ Plain(self.v)) =>
        /\ DigitCount(out) = Max(arg, IntegerFigures(temp))
        /\ DigitCount(IntegerPart(out)) <= 3

-----------------------------------------------------------------------------
(* The parse calls: parse and parse_ratio are applied once to a string     *)
(* drawn from the strings of bounded length over a small alphabet.         *)

MaxLen == 4

Chars == {"0", "1", "3", "5", ",", ".", "-", ":", "k", "u", "µ", "a", "e"}

Strings == UNION {[1..n -> Chars] : n \in 0..MaxLen}

ParseInit ==
    /\ pc = "call"
    /\ op = "none"
    /\ self = None
    /\ arg \in Strings
    /\ out = None
    /\ a = 0
    /\ temp = Zero

Parse == arg \in Strings /\ Return("parse", parse(arg))

ParseRatio == arg \in Strings /\ Return("parse_ratio", parse_ratio(arg))

ParseNext == Parse \/ ParseRatio

SpecParse == ParseInit /\ [][ParseNext]_vars

\* The table entries one of whose characters ends s.
Suffixes(s) ==
    {i \in 1..Len(METRIC_PREFIXES) :
        s # <<>> /\ Last(s) \in {METRIC_PREFIXES[i].sym[j] : j \in 1..Len(METRIC_PREFIXES[i].sym)}}

\* What the claim gives for parse(str).
Parsed(str) ==
    LET s0 == ReplaceComma(str)
        body == IF Suffixes(s0) = {} THEN s0 ELSE Front(s0)
        factor == IF Suffixes(s0) = {} THEN I(1)
                  ELSE Dec(1, METRIC_PREFIXES[CHOOSE i \in Suffixes(s0) : TRUE].exp)
    IN  IF ParseF64(body) = Err THEN None ELSE In(FMul(ParseF64(body), factor))

\* C4: parse returns In(x) or None, never Out and never an error: with ','
\* read as '.', a last character that is a prefix-table symbol is stripped
\* and gives the factor 10^exponent (1 otherwise); a remaining text that is a
\* float literal gives In(value * factor), anything else None.
C4_ParseTotal ==
    pc = "done" /\ op = "parse" =>
        /\ out.tag \in {"In", "None"}
        /\ Cardinality(Suffixes(ReplaceComma(arg))) <= 1
        /\ out = Parsed(arg)
        /\ (arg = <<"5", ",", "5", "k">> => out = In(I(5500)))
        /\ (arg \in {<<>>, <<"k">>, <<"a", "a", "a">>} => out = None)

\* "5,5k" has been parsed to In(5500).
C4_Witness ==
    pc = "done" /\ op = "parse" /\ arg = <<"5", ",", "5", "k">> /\ out = In(I(5500))

\* The positions of the colons of a string.
Colons(s) == {i \in 1..Len(s) : s[i] = ":"}

\* C6: parse_ratio returns None unless the input splits on ':' into exactly
\* two parts that parse accepts, and then In(parse(b) / parse(a)) for "a:b";
\* it never panics, a first part of 0 included.
C6_ParseRatio ==
    pc = "done" /\ op = "parse_ratio" =>
        /\ out # Panic
        /\ out.tag \in {"In", "None"}
        /\ IF Cardinality(Colons(arg)) # 1 THEN out = None
           ELSE LET c == CHOOSE i \in Colons(arg) : TRUE
                    pa == Parsed(SubSeq(arg, 1, c - 1))
                    pb == Parsed(SubSeq(arg, c + 1, Len(arg)))
                IN  IF pa = None \/ pb = None THEN out = None
                    ELSE out = In(FDiv(pb.v, pa.v))
        /\ (arg = <<"1", ":", "3">> => out = In(I(3)))

\* "0:5" has been parsed to In(+inf): the division by a zero first part.
C6_Witness ==
    pc = "done" /\ op = "parse_ratio" /\ arg = <<"0", ":", "5">> /\ out = In(PosInf)

-----------------------------------------------------------------------------
(* display_ratio, its while loop taken one iteration at a time.            *)

\* temp.fract() > 0.0001 && temp.fract() < 0.9999
RatioSearching(t) == FGt(Fract(t), Dec(1, -4)) /\ FLt(Fract(t), Dec(9999, -4))

\* format!("{}:{}", a, b) with b = temp.round() as i64.
RatioString(i, t) == IntToStr(i) \o <<":">> \o RoundI64Str(t)

MaxDen == 8

MaxNum == 12

\* The iterations the model follows a search for.
IterCap == 10010

\* Fractions whose search is long: just off the tolerance on either side.
LongFractions == {<<10001, 100000000>>, <<11, 100000>>, <<1, 9999>>, <<9999, 10000>>, <<1, 10000>>}

Fractions == ((-MaxNum)..MaxNum) \X (1..MaxDen) \cup LongFractions

\* arg keeps the fraction p / q the payload of self was made from (<<0, 0>>
\* when there is none).
RatioInit ==
    /\ pc = "call"
    /\ op = "none"
    /\ \/ /\ arg \in Fractions
          /\ self \in {In(Q(arg[1], arg[2])), Out(Q(arg[1], arg[2]))}
       \/ /\ arg = <<0, 0>>
          /\ self \in {None, In(NaN), In(PosInf), Out(NegInf)}
    /\ out = <<>>
    /\ a = 0
    /\ temp = Zero

\* The call: "" for None, otherwise a = 1, temp = num and the loop is entered.
RatioEnter ==
    /\ pc = "call"
    /\ op' = "display_ratio"
    /\ IF is_num(self)
       THEN a' = 1 /\ temp' = num(self) /\ pc' = "loop" /\ out' = out
       ELSE a' = a /\ temp' = temp /\ pc' = "done" /\ out' = <<>>
    /\ UNCHANGED <<self, arg>>

\* One iteration of the loop body.
RatioStep ==
    /\ pc = "loop"
    /\ RatioSearching(temp)
    /\ a < IterCap
    /\ a' = a + 1
    /\ temp' = FAdd(temp, num(self))
    /\ UNCHANGED <<pc, op, self, arg, out>>

\* The loop condition fails: b is rounded and the string returned.
RatioExit ==
    /\ pc = "loop"
    /\ ~RatioSearching(temp)
    /\ out' = RatioString(a, temp)
    /\ pc' = "done"
    /\ UNCHANGED <<op, self, arg, a, temp>>

RatioNext == RatioEnter \/ RatioStep \/ RatioExit

\* The call runs on until it returns.
SpecRatio == RatioInit /\ [][RatioNext]_vars /\ WF_vars(RatioNext)

\* x is within 0.0001 of an integer.
Near(x) ==
    \/ ~FGt(Fract(FAbs(x)), Dec(1, -4))
    \/ ~FLt(Fract(FAbs(x)), Dec(9999, -4))

\* C5: for a present v, negative or not, display_ratio returns "a:b" with a
\* the smallest positive integer such that a * v is within 0.0001 of an
\* integer and b = round(a * v); for None it returns "".
C5_SmallestMultiple ==
    /\ pc = "done" /\ self = None => out = <<>>
    /\ pc = "done" /\ is_num(self) /\ IsFin(self.v) =>
          /\ Near(FMul(I(a), self.v))
          /\ \A k \in 1..(a - 1) : ~Near(FMul(I(k), self.v))
          /\ out = RatioString(a, FMul(I(a), self.v))

\* A step of the call is possible: the guards of RatioEnter, RatioStep and
\* RatioExit.
RatioCanStep ==
    \/ pc = "call"
    \/ pc = "loop" /\ RatioSearching(temp) /\ a < IterCap
    \/ pc = "loop" /\ ~RatioSearching(temp)

\* C9: the search loop of display_ratio terminates for every present value:
\* the call never stops short of its return, the counter a only grows and
\* stays within 10000, for v = p / q >= 0 within q, and for v < 0 at 1 (the
\* body is never run).
C9_LoopTerminates ==
    /\ pc = "done" \/ RatioCanStep
    /\ pc \in {"loop", "done"} /\ is_num(self) => a >= 1 /\ a <= 10000
    /\ pc \in {"loop", "done"} /\ arg \in Fractions /\ arg[1] >= 0 => a <= arg[2]
    /\ pc \in {"loop", "done"} /\ arg \in Fractions /\ arg[1] < 0 => a = 1

\* The search for 10001 / 10^8 has ended after 9999 iterations.
C9_Witness == pc = "done" /\ arg = <<10001, 100000000>> /\ a = 9999

====
